---- MODULE Spec2Model ----
(***************************************************************************)
(* State-machine model of the two dynamics solvers of exotica:             *)
(*   CartpoleDynamicsSolver  (cartpole_dynamics_solver.cpp)                *)
(*   PinocchioDynamicsSolver (pinocchio_dynamics_solver.cpp)               *)
(*                                                                         *)
(* One solver instance is modelled per behaviour; `kind` says which class  *)
(* it is.  Vectors are sequences of integers, matrices are sequences of    *)
(* rows.  Real numbers are abstracted to integers: angles of the cartpole  *)
(* and of unbounded revolute joints are counted in quarter turns so that   *)
(* sin and cos are exact, and quotients are kept as <<numerator,           *)
(* denominator>> pairs.                                                    *)
(***************************************************************************)
EXTENDS Integers, Sequences, FiniteSets, TLC

VARIABLES
    kind,              \* "cartpole" or "pinocchio": the class of the instance
    num_positions_,    \* DynamicsSolver::num_positions_
    num_velocities_,   \* DynamicsSolver::num_velocities_
    num_controls_,     \* DynamicsSolver::num_controls_
    parameters_,       \* m_c, m_p, l, g (cartpole) and dt_ (fixed step)
    model_,            \* pinocchio::Model: the joints the engine model holds
    pinocchio_data_,   \* pinocchio::Data; not allocated before the first bind
    xdot_analytic_,    \* scratch vector of f
    fx_,               \* scratch matrix of fx
    fu_,               \* scratch matrix of fu
    bound,             \* history: an AssignScene call has succeeded
    call,              \* history: the last call, its arguments and its outcome
    held               \* the caller's variable keeping a result of f, fx or fu

vars == <<kind, num_positions_, num_velocities_, num_controls_, parameters_,
          model_, pinocchio_data_, xdot_analytic_, fx_, fu_, bound, call, held>>

(***************************************************************************)
(* Bounds of the model.                                                    *)
(***************************************************************************)
\* longest joint chain of a kinematic description
MaxJoints == 2
\* sample input vectors per size are numbered 0..MaxSeed
MaxSeed == 1
\* largest number of controlled joints a description reports to the cartpole
MaxControlled == 3

NoValue == <<>>

(***************************************************************************)
(* Eigen vectors and matrices.                                             *)
(***************************************************************************)
\* a vector or a matrix as the stored coefficients (TLC then evaluates the
\* coefficients once, when the value is built)
Stored(v) == v \o <<>>
\* x.head(n)
VecHead(v, n) == SubSeq(v, 1, n)
\* x.tail(n)
VecTail(v, n) == SubSeq(v, Len(v) - n + 1, Len(v))
\* Eigen::VectorXd::Zero(n), setZero(n)
ZeroVec(n) == Stored([i \in 1..n |-> 0])
\* setZero(r, c)
ZeroMat(r, c) == Stored([i \in 1..r |-> Stored([j \in 1..c |-> 0])])
\* Eigen::MatrixXd::Identity(n, n)
IdentityMat(n) ==
    Stored([i \in 1..n |-> Stored([j \in 1..n |-> IF i = j THEN 1 ELSE 0])])
\* a + b, a - b, k * a on vectors
VecAdd(a, b) == Stored([i \in 1..Len(a) |-> a[i] + b[i]])
VecSub(a, b) == Stored([i \in 1..Len(a) |-> a[i] - b[i]])
VecScale(k, a) == Stored([i \in 1..Len(a) |-> k * a[i]])
Rows(M) == Len(M)
Cols(M) == IF Len(M) = 0 THEN 0 ELSE Len(M[1])
\* M.block(r0, c0, r, c) read, with Eigen's zero-based corner (r0, c0)
Block(M, r0, c0, r, c) ==
    Stored([i \in 1..r |-> Stored([j \in 1..c |-> M[r0 + i][c0 + j]])])
\* M.block(r0, c0, rows of B, columns of B) = B
SetBlock(M, r0, c0, B) ==
    LET r == Rows(B)
        c == Cols(B)
        cols == Cols(M)
    IN  Stored([i \in 1..Rows(M) |->
            Stored([j \in 1..cols |->
                IF i > r0 /\ i <= r0 + r /\ j > c0 /\ j <= c0 + c
                THEN B[i - r0][j - c0]
                ELSE M[i][j]])])
\* M *= k
MatScale(k, M) ==
    LET cols == Cols(M)
    IN  Stored([i \in 1..Rows(M) |-> Stored([j \in 1..cols |-> k * M[i][j]])])

RECURSIVE SumTo(_, _)
SumTo(v, n) == IF n = 0 THEN 0 ELSE v[n] + SumTo(v, n - 1)
VecSum(v) == SumTo(v, Len(v))

(***************************************************************************)
(* The external articulated-body engine (pinocchio), as the solver calls   *)
(* it.  A model is the sequence of its joints: "R" is a bounded revolute   *)
(* or prismatic joint (one configuration coordinate, Euclidean), "C" an    *)
(* unbounded revolute joint whose configuration is the pair (cos, sin) of  *)
(* its angle, so nq exceeds nv.  Angles of "C" joints are whole quarter    *)
(* turns.  The dynamics are those of unit inertias with a position-        *)
(* dependent load and a velocity coupling between the joints.              *)
(***************************************************************************)
JointTypes == {"R", "C"}
JointNq(j) == IF j = "C" THEN 2 ELSE 1

RECURSIVE NqTo(_, _)
NqTo(joints, n) == IF n = 0 THEN 0 ELSE JointNq(joints[n]) + NqTo(joints, n - 1)
\* model_.nq and model_.nv
ModelNq(joints) == NqTo(joints, Len(joints))
ModelNv(joints) == Len(joints)
\* index of joint i's first configuration coordinate
IdxQ(joints, i) == NqTo(joints, i - 1) + 1
IsEuclidean(joints) == \A i \in 1..Len(joints) : joints[i] = "R"

Sin(k) == CASE k % 4 = 1 -> 1 [] k % 4 = 3 -> -1 [] OTHER -> 0
Cos(k) == CASE k % 4 = 0 -> 1 [] k % 4 = 2 -> -1 [] OTHER -> 0
UnitOf(k) == <<Cos(k), Sin(k)>>
AngleOf(c, s) ==
    CASE <<c, s>> = <<0, 1>> -> 1
      [] <<c, s>> = <<-1, 0>> -> 2
      [] <<c, s>> = <<0, -1>> -> 3
      [] OTHER -> 0
\* an angle difference brought into (-pi, pi], in quarter turns
WrapAngle(d) == ((d + 1) % 4) - 1

\* pinocchio::difference(model, q0, q1, out): out = q1 (-) q0
difference(joints, q0, q1) ==
    Stored([i \in 1..Len(joints) |->
        IF joints[i] = "C"
        THEN WrapAngle(AngleOf(q1[IdxQ(joints, i)], q1[IdxQ(joints, i) + 1])
                       - AngleOf(q0[IdxQ(joints, i)], q0[IdxQ(joints, i) + 1]))
        ELSE q1[IdxQ(joints, i)] - q0[IdxQ(joints, i)]])

RECURSIVE IntegrateTo(_, _, _, _)
IntegrateTo(joints, q, v, n) ==
    IF n = 0 THEN <<>>
    ELSE IntegrateTo(joints, q, v, n - 1) \o
         (IF joints[n] = "C"
          THEN UnitOf(AngleOf(q[IdxQ(joints, n)], q[IdxQ(joints, n) + 1]) + v[n])
          ELSE <<q[IdxQ(joints, n)] + v[n]>>)
\* pinocchio::integrate(model, q, v, out): out = q (+) v
integrate(joints, q, v) == IntegrateTo(joints, q, v, Len(joints))

\* pinocchio::dDifference(model, q0, q1, J, arg): d(q1 (-) q0)/d(q0 or q1)
dDifference(joints, q0, q1, arg) ==
    MatScale(IF arg = "ARG0" THEN -1 ELSE 1, IdentityMat(Len(joints)))

\* the load on joint i at configuration q, and its derivative
JointLoad(joints, q, i) ==
    IF joints[i] = "C" THEN q[IdxQ(joints, i) + 1] ELSE q[IdxQ(joints, i)]
JointLoadSlope(joints, q, i) ==
    IF joints[i] = "C" THEN q[IdxQ(joints, i)] ELSE 1

\* pinocchio::aba(model, data, q, v, tau): data.ddq
aba(joints, q, v, tau) ==
    LET vsum == VecSum(v)
    IN  Stored([i \in 1..Len(joints) |->
                    tau[i] - JointLoad(joints, q, i) - v[i] * vsum])

\* pinocchio::computeABADerivatives: the three partial derivatives of ddq
ddq_dq(joints, q, v, tau) ==
    Stored([i \in 1..Len(joints) |->
        Stored([j \in 1..Len(joints) |->
            IF i = j THEN 0 - JointLoadSlope(joints, q, i) ELSE 0])])
ddq_dv(joints, q, v, tau) ==
    LET vsum == VecSum(v)
    IN  Stored([i \in 1..Len(joints) |->
            Stored([j \in 1..Len(joints) |->
                0 - v[i] - (IF i = j THEN vsum ELSE 0)])])
ddq_dtau(joints, q, v, tau) == IdentityMat(Len(joints))

\* pinocchio::rnea(model, data, q, v, a): the torque giving acceleration a
rnea(joints, q, v, a) ==
    LET vsum == VecSum(v)
    IN  Stored([i \in 1..Len(joints) |->
                    a[i] + JointLoad(joints, q, i) + v[i] * vsum])

(***************************************************************************)
(* Inputs.  The vectors a caller passes are drawn from numbered samples;   *)
(* a state of the right size for an engine model is a point of its         *)
(* configuration manifold followed by a velocity.                          *)
(***************************************************************************)
Seeds == 0..MaxSeed
SampleVec(n, s) == Stored([i \in 1..n |-> (((s + 1) * i + s) % 5) - 2])

RECURSIVE ConfigTo(_, _, _)
ConfigTo(joints, t, n) ==
    IF n = 0 THEN <<>>
    ELSE ConfigTo(joints, t, n - 1) \o
         (IF joints[n] = "C" THEN UnitOf(t[n]) ELSE <<t[n]>>)
SampleState(joints, s) ==
    ConfigTo(joints, SampleVec(2 * Len(joints), s), Len(joints))
        \o VecTail(SampleVec(2 * Len(joints), s), Len(joints))

\* what an unchecked read of n coefficients past the end of v may find
Garbage == {0, 1}
\* the n leading coefficients the code reads from v, in a build without
\* Eigen's assertions: beyond the end of v the values are arbitrary
Reads(v, n) ==
    IF Len(v) >= n THEN {SubSeq(v, 1, n)}
    ELSE {v \o pad : pad \in [1..(n - Len(v)) -> Garbage]}
\* sizes a caller may give a vector whose expected size is n
SizesAround(n) == {k \in {n - 1, n, n + 1} : k >= 0}

\* a state and a control of the sizes the instance expects
ValidState(s) ==
    IF kind = "pinocchio" THEN SampleState(model_, s)
    ELSE SampleVec(num_positions_ + num_velocities_, s)
ValidControl(s) == SampleVec(num_controls_, s + 2)
\* vectors whose size is one off the expected size n
WrongSized(n) == {SampleVec(k, 0) : k \in SizesAround(n) \ {n}}

\* the (x, u) drawn for f, fx, fu and ComputeDerivatives: both of the right
\* size, or one of them of a wrong size
StateControlInputs ==
    {<<ValidState(s), ValidControl(s)>> : s \in Seeds}
    \cup {<<x, ValidControl(0)>> : x \in WrongSized(num_positions_ + num_velocities_)}
    \cup {<<ValidState(0), u>> : u \in WrongSized(num_controls_)}
ValidStateControlInputs == {<<ValidState(s), ValidControl(s)>> : s \in Seeds}
\* the (x_1, x_2) drawn for StateDelta and dStateDelta
StatePairInputs ==
    {<<ValidState(s), ValidState((s + 1) % (MaxSeed + 1))>> : s \in Seeds}
    \cup {<<SampleVec(num_positions_ + num_velocities_ + 1, 0), ValidState(0)>>,
           <<ValidState(0), SampleVec(num_positions_ + num_velocities_ - 1, 0)>>}
ValidStatePairInputs ==
    {<<ValidState(s), ValidState((s + 1) % (MaxSeed + 1))>> : s \in Seeds}
ValidStateInputs == {ValidState(s) : s \in Seeds}
\* the (x, dx) and the dt drawn for Integrate
StateTangentInputs ==
    {<<ValidState(s), SampleVec(2 * num_velocities_, s + 1)>> : s \in Seeds}
StepInputs == {0, 1, parameters_.dt_}

(***************************************************************************)
(* The record of a call.                                                   *)
(***************************************************************************)
\* outcome: "ok" (returned), "Exception" (ThrowPretty: exotica::Exception),
\* "abort" (an assertion of Eigen or of the engine stopped the process)
Returned(value) == [outcome |-> "ok", what |-> "", ret |-> value]
Thrown(message) == [outcome |-> "Exception", what |-> message, ret |-> NoValue]
Aborted == [outcome |-> "abort", what |-> "assertion", ret |-> NoValue]

NoScene == [base |-> "", joints |-> <<>>, controlled |-> 0]
NoArgs == [scene |-> NoScene, x |-> <<>>, u |-> <<>>, x_2 |-> <<>>,
           dx |-> <<>>, arg |-> "", dt |-> 0]
CallOf(op, args, result) ==
    [op |-> op, rebind |-> (op = "AssignScene" /\ bound), scene |-> args.scene, x |-> args.x, u |-> args.u,
     x_2 |-> args.x_2, dx |-> args.dx, arg |-> args.arg, dt |-> args.dt,
     outcome |-> result.outcome, what |-> result.what, ret |-> result.ret]

(***************************************************************************)
(* Kinematic descriptions handed to AssignScene.                           *)
(***************************************************************************)
BaseTypes == {"FIXED", "PLANAR", "FLOATING"}
JointSeqs(n) == UNION {[1..k -> JointTypes] : k \in 0..n}
\* descriptions given to the generic solver: a base type and a joint chain
\* (one joint where the base is not fixed: the chain is not read there)
PinocchioScenes ==
    {[base |-> "FIXED", joints |-> js, controlled |-> Len(js)] :
        js \in JointSeqs(MaxJoints)}
    \cup {[base |-> b, joints |-> <<j>>, controlled |-> 1] :
            b \in BaseTypes \ {"FIXED"}, j \in JointTypes}
\* descriptions given to the cartpole solver: only the count is read
CartpoleScenes ==
    {[base |-> "FIXED", joints |-> [i \in 1..n |-> "R"], controlled |-> n] :
        n \in 0..MaxControlled}

(***************************************************************************)
(* CartpoleDynamicsSolver.                                                 *)
(***************************************************************************)
\* a quotient, kept as numerator and denominator
Frac(n, d) == <<n, d>>
\* a / (b * b) + c / b
FracSum(a, c, b) == Frac(a + c * b, b * b)

\* CartpoleDynamicsSolver::CartpoleDynamicsSolver
CartpoleConstructor ==
    [num_positions_ |-> 2, num_velocities_ |-> 2, num_controls_ |-> 1]

\* AssignScene with the count compared by < instead of != (mutant)
CartpoleAssignScene_LowerBoundOnly(scene_in) ==
    LET num_positions_in == scene_in.controlled
    IN  IF num_positions_in < 2
        THEN Thrown("Robot model may not be a Cartpole.")
        ELSE Returned(NoValue)

\* CartpoleDynamicsSolver::AssignScene
CartpoleAssignScene(scene_in) ==
    LET num_positions_in == scene_in.controlled
    IN  IF num_positions_in # 2
        THEN Thrown("Robot model may not be a Cartpole.")
        ELSE Returned(NoValue)

\* CartpoleDynamicsSolver::f, on the coefficients x(0..3) and u(0) it reads
CartpoleF(x, u) ==
    LET m_c == parameters_.m_c
        m_p == parameters_.m_p
        len == parameters_.l
        grav == parameters_.g
        theta == x[2]
        xdot == x[3]
        thetadot == x[4]
        sin_theta == Sin(theta)
        cos_theta == Cos(theta)
        theta_dot_squared == thetadot * thetadot
    IN  << Frac(xdot, 1), Frac(thetadot, 1),
           Frac(u[1] + m_p * sin_theta * (len * theta_dot_squared + grav * cos_theta),
                m_c + m_p * sin_theta * sin_theta),
           Frac(0 - (len * m_p * cos_theta * sin_theta * theta_dot_squared
                     + u[1] * cos_theta + (m_c + m_p) * grav * sin_theta),
                len * m_c + len * m_p * sin_theta * sin_theta) >>

\* CartpoleDynamicsSolver::fx
CartpoleFx(x, u) ==
    LET m_c == parameters_.m_c
        m_p == parameters_.m_p
        len == parameters_.l
        grav == parameters_.g
        theta == x[2]
        tdot == x[4]
        sin_theta == Sin(theta)
        cos_theta == Cos(theta)
        den_c == m_c + m_p * sin_theta * sin_theta
        den_p == len * m_c + len * m_p * sin_theta * sin_theta
        O == Frac(0, 1)
        I == Frac(1, 1)
    IN  << <<O, O, I, O>>,
           <<O, O, O, I>>,
           << O,
              FracSum((0 - 2) * m_p
                        * (m_p * (grav * cos_theta + len * tdot * tdot) * sin_theta + u[1])
                        * sin_theta * cos_theta,
                      (0 - grav) * m_p * sin_theta * sin_theta
                        + m_p * (grav * cos_theta + len * tdot * tdot) * cos_theta,
                      den_c),
              O,
              Frac(2 * len * m_p * tdot * sin_theta, den_c) >>,
           << O,
              FracSum((0 - 2) * len * m_p
                        * ((0 - grav) * (m_c + m_p) * sin_theta
                           - len * m_p * tdot * tdot * sin_theta * cos_theta
                           - u[1] * cos_theta)
                        * sin_theta * cos_theta,
                      (0 - grav) * (m_c + m_p) * cos_theta
                        + len * m_p * tdot * tdot * sin_theta * sin_theta
                        - len * m_p * tdot * tdot * cos_theta * cos_theta
                        + u[1] * sin_theta,
                      den_p),
              O,
              Frac((0 - 2) * len * m_p * tdot * sin_theta * cos_theta, den_p) >> >>

\* CartpoleDynamicsSolver::fu (a 4 x 1 matrix)
CartpoleFu(x, u) ==
    LET m_c == parameters_.m_c
        m_p == parameters_.m_p
        len == parameters_.l
        theta == x[2]
        sin_theta == Sin(theta)
        cos_theta == Cos(theta)
    IN  << <<Frac(0, 1)>>, <<Frac(0, 1)>>,
           <<Frac(1, m_c + m_p * sin_theta * sin_theta)>>,
           <<Frac(0 - cos_theta,
                  len * m_c + len * m_p * sin_theta * sin_theta)>> >>

\* CartpoleDynamicsSolver::GetPosition; M_PI is two quarter turns
CartpoleGetPosition(x_in) == <<x_in[1], 2 - x_in[2]>>

\* CartpoleDynamicsSolver::StateDelta
CartpoleStateDelta(x_1, x_2) == VecSub(x_1, x_2)

(***************************************************************************)
(* PinocchioDynamicsSolver.                                                *)
(***************************************************************************)
\* v.head(n) = w and v.tail(n) = w
VecSetHead(v, n, w) == Stored([i \in 1..Len(v) |-> IF i <= n THEN w[i] ELSE v[i]])
VecSetTail(v, n, w) ==
    LET first == Len(v) - n
    IN  Stored([i \in 1..Len(v) |-> IF i > first THEN w[i - first] ELSE v[i]])

\* num_positions_, num_velocities_ and num_controls_ of a default-constructed
\* DynamicsSolver
UnsetDim == -1

\* DynamicsSolver::get_num_state_derivative
get_num_state_derivative(num_velocities) == 2 * num_velocities

\* pinocchio::urdf::buildModel(urdf, model_, verbose): the joints of the
\* description are added to the model it is given
buildModel(joints, model) == model \o joints

\* the empty std::shared_ptr<pinocchio::Data> of a new solver
NullData == [allocated |-> FALSE, nv |-> 0]
\* new pinocchio::Data(model_): the engine's workspace for the model.  Each
\* engine algorithm fills it and the solver reads the result (data.ddq, the
\* value rnea returns) within the same call, so only its shape is kept
NewData(model) == [allocated |-> TRUE, nv |-> ModelNv(model)]

\* PinocchioDynamicsSolver::AssignScene past the base-type test: the model is
\* built, the dimensions are set and the data and the buffers are allocated
PinocchioBind(scene_in) ==
    LET model == buildModel(scene_in.joints, model_)
        num_positions == ModelNq(model)
        num_velocities == ModelNv(model)
        num_controls == ModelNv(model)
        ndx == get_num_state_derivative(num_velocities)
    IN  [result |-> Returned(NoValue),
         model_ |-> model,
         num_positions_ |-> num_positions,
         num_velocities_ |-> num_velocities,
         num_controls_ |-> num_controls,
         pinocchio_data_ |-> NewData(model),
         xdot_analytic_ |-> ZeroVec(ndx),
         fx_ |-> SetBlock(ZeroMat(ndx, ndx), 0, ndx - num_velocities,
                          IdentityMat(num_velocities)),
         fu_ |-> ZeroMat(ndx, num_controls)]

\* AssignScene without the test of the base type (mutant)
PinocchioAssignScene_AnyBase(scene_in) == PinocchioBind(scene_in)

\* PinocchioDynamicsSolver::AssignScene: the outcome and the fields it leaves
PinocchioAssignScene(scene_in) ==
    IF scene_in.base = "FIXED"
    THEN PinocchioBind(scene_in)
    ELSE [result |-> Thrown("This condition should never happen. Unknown BaseType."),
          model_ |-> model_,
          num_positions_ |-> num_positions_,
          num_velocities_ |-> num_velocities_,
          num_controls_ |-> num_controls_,
          pinocchio_data_ |-> pinocchio_data_,
          xdot_analytic_ |-> xdot_analytic_,
          fx_ |-> fx_,
          fu_ |-> fu_]

\* PinocchioDynamicsSolver::f, with tau the torque the engine reads from u
PinocchioF(x, tau) ==
    LET ddq == aba(model_, VecHead(x, num_positions_), VecTail(x, num_velocities_), tau)
        xdot1 == VecSetHead(xdot_analytic_, num_velocities_, VecTail(x, num_velocities_))
        xdot2 == VecSetTail(xdot1, num_velocities_, ddq)
    IN  [pinocchio_data_ |-> pinocchio_data_,
         xdot_analytic_ |-> xdot2,
         ret |-> xdot2]

\* the derivative call with ddq_dq handed the top-left block of fx_ and
\* ddq_dv its top-right block (mutant)
ComputeABADerivativesInto_TopBlocks(x, tau) ==
    LET q == VecHead(x, num_positions_)
        v == VecTail(x, num_velocities_)
        fx1 == SetBlock(fx_, 0, 0, ddq_dq(model_, q, v, tau))
        fx2 == SetBlock(fx1, 0, num_velocities_, ddq_dv(model_, q, v, tau))
        fu1 == SetBlock(fu_, Rows(fu_) - num_velocities_, Cols(fu_) - num_velocities_,
                        ddq_dtau(model_, q, v, tau))
    IN  [pinocchio_data_ |-> pinocchio_data_,
         fx_ |-> fx2,
         fu_ |-> fu1]

\* the call of pinocchio::computeABADerivatives that ComputeDerivatives, fx
\* and fu each make: the blocks of fx_ and fu_ it is handed, and data.ddq
ComputeABADerivativesInto(x, tau) ==
    LET q == VecHead(x, num_positions_)
        v == VecTail(x, num_velocities_)
        fx1 == SetBlock(fx_, num_velocities_, 0, ddq_dq(model_, q, v, tau))
        fx2 == SetBlock(fx1, num_velocities_, num_velocities_, ddq_dv(model_, q, v, tau))
        fu1 == SetBlock(fu_, Rows(fu_) - num_velocities_, Cols(fu_) - num_velocities_,
                        ddq_dtau(model_, q, v, tau))
    IN  [pinocchio_data_ |-> pinocchio_data_,
         fx_ |-> fx2,
         fu_ |-> fu1]

\* PinocchioDynamicsSolver::ComputeDerivatives
PinocchioComputeDerivatives(x, tau) ==
    LET d == ComputeABADerivativesInto(x, tau)
    IN  [pinocchio_data_ |-> d.pinocchio_data_, fx_ |-> d.fx_, fu_ |-> d.fu_,
         ret |-> NoValue]

\* PinocchioDynamicsSolver::fx
PinocchioFx(x, tau) ==
    LET d == ComputeABADerivativesInto(x, tau)
    IN  [pinocchio_data_ |-> d.pinocchio_data_, fx_ |-> d.fx_, fu_ |-> d.fu_,
         ret |-> d.fx_]

\* PinocchioDynamicsSolver::fu
PinocchioFu(x, tau) ==
    LET d == ComputeABADerivativesInto(x, tau)
    IN  [pinocchio_data_ |-> d.pinocchio_data_, fx_ |-> d.fx_, fu_ |-> d.fu_,
         ret |-> d.fu_]

\* PinocchioDynamicsSolver::InverseDynamics
PinocchioInverseDynamics(x) ==
    LET u == rnea(model_, VecHead(x, num_positions_), VecTail(x, num_velocities_),
                  ZeroVec(num_velocities_))
    IN  [pinocchio_data_ |-> pinocchio_data_, ret |-> u]

\* StateDelta with the configurations handed to difference in the order
\* x_1, x_2 (mutant)
PinocchioStateDelta_SwappedDifference(x_1, x_2) ==
    IF \/ Len(x_1) # num_positions_ + num_velocities_
       \/ Len(x_2) # num_positions_ + num_velocities_
    THEN Thrown("x_1 or x_2 do not have correct size")
    ELSE LET dx0 == ZeroVec(2 * num_velocities_)
             dx1 == VecSetHead(dx0, num_velocities_,
                               difference(model_, VecHead(x_1, num_positions_),
                                          VecHead(x_2, num_positions_)))
             dx2 == VecSetTail(dx1, num_velocities_,
                               VecSub(VecTail(x_1, num_velocities_),
                                      VecTail(x_2, num_velocities_)))
         IN  Returned(dx2)

\* PinocchioDynamicsSolver::StateDelta
PinocchioStateDelta(x_1, x_2) ==
    IF \/ Len(x_1) # num_positions_ + num_velocities_
       \/ Len(x_2) # num_positions_ + num_velocities_
    THEN Thrown("x_1 or x_2 do not have correct size")
    ELSE LET dx0 == ZeroVec(2 * num_velocities_)
             dx1 == VecSetHead(dx0, num_velocities_,
                               difference(model_, VecHead(x_2, num_positions_),
                                          VecHead(x_1, num_positions_)))
             dx2 == VecSetTail(dx1, num_velocities_,
                               VecSub(VecTail(x_1, num_velocities_),
                                      VecTail(x_2, num_velocities_)))
         IN  Returned(dx2)

\* dStateDelta asking the engine for the same argument slot in both
\* branches (mutant)
PinocchioDStateDelta_SameSlot(x_1, x_2, first_or_second) ==
    IF \/ Len(x_1) # num_positions_ + num_velocities_
       \/ Len(x_2) # num_positions_ + num_velocities_
    THEN Thrown("x_1 or x_2 do not have correct size")
    ELSE IF first_or_second # "ARG0" /\ first_or_second # "ARG1"
    THEN Thrown("Can only take derivative w.r.t. x_1 or x_2, i.e., ARG0 or ARG1.")
    ELSE LET J0 == IdentityMat(2 * num_velocities_)
             J1 == SetBlock(J0, 0, 0,
                            dDifference(model_, VecHead(x_2, num_positions_),
                                        VecHead(x_1, num_positions_), "ARG1"))
         IN  IF first_or_second = "ARG0"
             THEN Returned(J1)
             ELSE Returned(SetBlock(J1, num_velocities_, num_velocities_,
                      MatScale(-1, Block(J1, num_velocities_, num_velocities_,
                                         num_velocities_, num_velocities_))))

\* dStateDelta testing the selector before the sizes (mutant)
PinocchioDStateDelta_SelectorFirst(x_1, x_2, first_or_second) ==
    IF first_or_second # "ARG0" /\ first_or_second # "ARG1"
    THEN Thrown("Can only take derivative w.r.t. x_1 or x_2, i.e., ARG0 or ARG1.")
    ELSE IF \/ Len(x_1) # num_positions_ + num_velocities_
            \/ Len(x_2) # num_positions_ + num_velocities_
    THEN Thrown("x_1 or x_2 do not have correct size")
    ELSE LET J0 == IdentityMat(2 * num_velocities_)
         IN  IF first_or_second = "ARG0"
             THEN Returned(SetBlock(J0, 0, 0,
                      dDifference(model_, VecHead(x_2, num_positions_),
                                  VecHead(x_1, num_positions_), "ARG1")))
             ELSE LET J1 == SetBlock(J0, 0, 0,
                               dDifference(model_, VecHead(x_2, num_positions_),
                                           VecHead(x_1, num_positions_), "ARG0"))
                  IN  Returned(SetBlock(J1, num_velocities_, num_velocities_,
                          MatScale(-1, Block(J1, num_velocities_, num_velocities_,
                                             num_velocities_, num_velocities_))))

\* PinocchioDynamicsSolver::dStateDelta
PinocchioDStateDelta(x_1, x_2, first_or_second) ==
    IF \/ Len(x_1) # num_positions_ + num_velocities_
       \/ Len(x_2) # num_positions_ + num_velocities_
    THEN Thrown("x_1 or x_2 do not have correct size")
    ELSE IF first_or_second # "ARG0" /\ first_or_second # "ARG1"
    THEN Thrown("Can only take derivative w.r.t. x_1 or x_2, i.e., ARG0 or ARG1.")
    ELSE LET J0 == IdentityMat(2 * num_velocities_)
         IN  IF first_or_second = "ARG0"
             THEN Returned(SetBlock(J0, 0, 0,
                      dDifference(model_, VecHead(x_2, num_positions_),
                                  VecHead(x_1, num_positions_), "ARG1")))
             ELSE LET J1 == SetBlock(J0, 0, 0,
                               dDifference(model_, VecHead(x_2, num_positions_),
                                           VecHead(x_1, num_positions_), "ARG0"))
                  IN  Returned(SetBlock(J1, num_velocities_, num_velocities_,
                          MatScale(-1, Block(J1, num_velocities_, num_velocities_,
                                             num_velocities_, num_velocities_))))

\* PinocchioDynamicsSolver::Integrate: the xout it leaves
PinocchioIntegrate(x, dx, dt, xout) ==
    LET dx_times_dt == VecScale(dt, dx)
        xout1 == VecSetHead(xout, num_positions_,
                            integrate(model_, VecHead(x, num_positions_),
                                      VecHead(dx_times_dt, num_velocities_)))
    IN  VecSetTail(xout1, num_velocities_,
                   VecAdd(VecTail(x, num_velocities_),
                          VecTail(dx_times_dt, num_velocities_)))

\* SimulateOneStep integrating over a unit step instead of dt_ (mutant)
PinocchioSimulateOneStep_UnitStep(x, tau) ==
    LET xout == ZeroVec(num_positions_ + num_velocities_)
        step == PinocchioF(x, tau)
        dx == step.ret
    IN  [pinocchio_data_ |-> step.pinocchio_data_,
         xdot_analytic_ |-> step.xdot_analytic_,
         ret |-> PinocchioIntegrate(x, dx, 1, xout)]

\* PinocchioDynamicsSolver::SimulateOneStep
PinocchioSimulateOneStep(x, tau) ==
    LET xout == ZeroVec(num_positions_ + num_velocities_)
        step == PinocchioF(x, tau)
        dx == step.ret
    IN  [pinocchio_data_ |-> step.pinocchio_data_,
         xdot_analytic_ |-> step.xdot_analytic_,
         ret |-> PinocchioIntegrate(x, dx, parameters_.dt_, xout)]

(***************************************************************************)
(* The state machine.                                                      *)
(***************************************************************************)
NoCall ==
    [op |-> "none", rebind |-> FALSE, scene |-> NoScene, x |-> <<>>, u |-> <<>>,
     x_2 |-> <<>>, dx |-> <<>>, arg |-> "", dt |-> 0,
     outcome |-> "ok", what |-> "", ret |-> NoValue]

\* the object a function with return type Eigen::VectorXd or Eigen::MatrixXd
\* hands its caller for "return <storage>;": a reference to the storage
ReturnedObject_ByReference(storage, contents) ==
    [storage |-> storage, contents |-> contents]

\* the object a function with return type Eigen::VectorXd or Eigen::MatrixXd
\* hands its caller for "return <storage>;": a new object, copy-constructed
\* from the storage's contents at the return
ReturnedObject(storage, contents) ==
    [storage |-> "caller", contents |-> contents]

\* the expression each f, fx and fu returns: a member buffer of the generic
\* solver, a local of the cartpole's
ReturnedStorage(solver, op) ==
    IF solver = "pinocchio"
    THEN CASE op = "f" -> "xdot_analytic_"
           [] op = "fx" -> "fx_"
           [] op = "fu" -> "fu_"
    ELSE CASE op = "f" -> "x_dot"
           [] op = "fx" -> "fx"
           [] op = "fu" -> "fu"

\* the caller keeps nothing
NoHeld ==
    [op |-> "none", x |-> <<>>, u |-> <<>>, at_return |-> NoValue,
     object |-> [storage |-> "caller", contents |-> NoValue]]

\* what the caller reads in the object it keeps: the object's own
\* coefficients, or those of the solver's buffer it refers to (the locals of
\* the cartpole's functions are gone after the return: such a read may still
\* find the old coefficients)
ValueOf(object) ==
    CASE object.storage = "xdot_analytic_" -> xdot_analytic_
      [] object.storage = "fx_" -> fx_
      [] object.storage = "fu_" -> fu_
      [] OTHER -> object.contents

Init ==
    /\ kind \in {"cartpole", "pinocchio"}
    /\ num_positions_ =
          IF kind = "cartpole" THEN CartpoleConstructor.num_positions_ ELSE UnsetDim
    /\ num_velocities_ =
          IF kind = "cartpole" THEN CartpoleConstructor.num_velocities_ ELSE UnsetDim
    /\ num_controls_ =
          IF kind = "cartpole" THEN CartpoleConstructor.num_controls_ ELSE UnsetDim
    \* masses, length and gravity in tenths of their units (1, 0.1, 0.5, 9.8);
    \* the fixed step dt_ is two units of the step resolution
    /\ parameters_ =
          IF kind = "cartpole"
          THEN [m_c |-> 10, m_p |-> 1, l |-> 5, g |-> 98, dt_ |-> 2]
          ELSE [m_c |-> 0, m_p |-> 0, l |-> 0, g |-> 0, dt_ |-> 2]
    /\ model_ = <<>>
    /\ pinocchio_data_ = NullData
    /\ xdot_analytic_ = <<>>
    /\ fx_ = <<>>
    /\ fu_ = <<>>
    /\ bound = FALSE
    /\ call = NoCall
    /\ held = NoHeld

\* the process is running: no assertion has stopped it
Alive == call.outcome # "abort"
\* a call on the cartpole solver
OnCartpole == kind = "cartpole" /\ Alive
\* a call other than AssignScene on the generic solver: every one of them
\* works on the engine data that the first bind allocates
OnBoundPinocchio == kind = "pinocchio" /\ Alive /\ pinocchio_data_.allocated

dims == <<num_positions_, num_velocities_, num_controls_>>
scratch == <<pinocchio_data_, xdot_analytic_, fx_, fu_>>

\* ------------------------------------------------------------ cartpole

CallCartpoleAssignScene ==
    /\ OnCartpole
    /\ \E scene_in \in CartpoleScenes :
          LET r == CartpoleAssignScene(scene_in)
          IN  /\ call' = CallOf("AssignScene", [NoArgs EXCEPT !.scene = scene_in], r)
              /\ bound' = (bound \/ r.outcome = "ok")
    /\ UNCHANGED <<kind, dims, parameters_, model_, scratch>>

CallCartpoleF ==
    /\ OnCartpole
    /\ \E xu \in StateControlInputs :
          LET x == xu[1]
              u == xu[2]
              args == [NoArgs EXCEPT !.x = x, !.u = u]
          IN  \/ /\ Len(x) < 4 \/ Len(u) < 1
                 /\ call' = CallOf("f", args, Aborted)
              \/ \E xr \in Reads(x, 4), ur \in Reads(u, 1) :
                    call' = CallOf("f", args, Returned(CartpoleF(xr, ur)))
    /\ UNCHANGED <<kind, dims, parameters_, model_, scratch, bound>>

CallCartpoleFx ==
    /\ OnCartpole
    /\ \E xu \in StateControlInputs :
          LET x == xu[1]
              u == xu[2]
              args == [NoArgs EXCEPT !.x = x, !.u = u]
          IN  \/ /\ Len(x) < 4 \/ Len(u) < 1
                 /\ call' = CallOf("fx", args, Aborted)
              \/ \E xr \in Reads(x, 4), ur \in Reads(u, 1) :
                    call' = CallOf("fx", args, Returned(CartpoleFx(xr, ur)))
    /\ UNCHANGED <<kind, dims, parameters_, model_, scratch, bound>>

CallCartpoleFu ==
    /\ OnCartpole
    /\ \E xu \in StateControlInputs :
          LET x == xu[1]
              u == xu[2]
              args == [NoArgs EXCEPT !.x = x, !.u = u]
          IN  \/ /\ Len(x) < 4
                 /\ call' = CallOf("fu", args, Aborted)
              \/ \E xr \in Reads(x, 4) :
                    call' = CallOf("fu", args, Returned(CartpoleFu(xr, u)))
    /\ UNCHANGED <<kind, dims, parameters_, model_, scratch, bound>>

CallCartpoleGetPosition ==
    /\ OnCartpole
    /\ \E x \in ValidStateInputs :
          call' = CallOf("GetPosition", [NoArgs EXCEPT !.x = x],
                         Returned(CartpoleGetPosition(x)))
    /\ UNCHANGED <<kind, dims, parameters_, model_, scratch, bound>>

CallCartpoleStateDelta ==
    /\ OnCartpole
    /\ \E xx \in ValidStatePairInputs :
          call' = CallOf("StateDelta", [NoArgs EXCEPT !.x = xx[1], !.x_2 = xx[2]],
                         Returned(CartpoleStateDelta(xx[1], xx[2])))
    /\ UNCHANGED <<kind, dims, parameters_, model_, scratch, bound>>

\* ------------------------------------------------------------ pinocchio

\* the argument-position selectors a caller may pass
ArgumentPositions == {"ARG0", "ARG1", "ARG2"}

CallPinocchioAssignScene ==
    /\ kind = "pinocchio"
    /\ Alive
    /\ \E scene_in \in PinocchioScenes :
          \* the engine model is followed up to MaxJoints joints
          /\ scene_in.base = "FIXED" => Len(model_) + Len(scene_in.joints) <= MaxJoints
          /\ \E r \in {PinocchioAssignScene(scene_in)} :
                 /\ call' = CallOf("AssignScene", [NoArgs EXCEPT !.scene = scene_in],
                                   r.result)
                 /\ bound' = (bound \/ r.result.outcome = "ok")
                 /\ model_' = r.model_
                 /\ num_positions_' = r.num_positions_
                 /\ num_velocities_' = r.num_velocities_
                 /\ num_controls_' = r.num_controls_
                 /\ pinocchio_data_' = r.pinocchio_data_
                 /\ xdot_analytic_' = r.xdot_analytic_
                 /\ fx_' = r.fx_
                 /\ fu_' = r.fu_
    /\ UNCHANGED <<kind, parameters_>>

CallPinocchioF ==
    /\ OnBoundPinocchio
    /\ \E xu \in StateControlInputs :
          LET x == xu[1]
              u == xu[2]
              args == [NoArgs EXCEPT !.x = x, !.u = u]
          IN  \/ /\ Len(u) # num_velocities_
                 /\ call' = CallOf("f", args, Aborted)
                 /\ UNCHANGED scratch
              \/ \E tau \in Reads(u, num_velocities_) :
                    \E r \in {PinocchioF(x, tau)} :
                        /\ call' = CallOf("f", args, Returned(r.ret))
                        /\ pinocchio_data_' = r.pinocchio_data_
                        /\ xdot_analytic_' = r.xdot_analytic_
                        /\ UNCHANGED <<fx_, fu_>>
    /\ UNCHANGED <<kind, dims, parameters_, model_, bound>>

CallPinocchioComputeDerivatives ==
    /\ OnBoundPinocchio
    /\ \E xu \in StateControlInputs :
          LET x == xu[1]
              u == xu[2]
              args == [NoArgs EXCEPT !.x = x, !.u = u]
          IN  \/ /\ Len(u) # num_velocities_
                 /\ call' = CallOf("ComputeDerivatives", args, Aborted)
                 /\ UNCHANGED scratch
              \/ \E tau \in Reads(u, num_velocities_) :
                    \E r \in {PinocchioComputeDerivatives(x, tau)} :
                        /\ call' = CallOf("ComputeDerivatives", args, Returned(r.ret))
                        /\ pinocchio_data_' = r.pinocchio_data_
                        /\ fx_' = r.fx_
                        /\ fu_' = r.fu_
                        /\ UNCHANGED xdot_analytic_
    /\ UNCHANGED <<kind, dims, parameters_, model_, bound>>

CallPinocchioFx ==
    /\ OnBoundPinocchio
    /\ \E xu \in StateControlInputs :
          LET x == xu[1]
              u == xu[2]
              args == [NoArgs EXCEPT !.x = x, !.u = u]
          IN  \/ /\ Len(u) # num_velocities_
                 /\ call' = CallOf("fx", args, Aborted)
                 /\ UNCHANGED scratch
              \/ \E tau \in Reads(u, num_velocities_) :
                    \E r \in {PinocchioFx(x, tau)} :
                        /\ call' = CallOf("fx", args, Returned(r.ret))
                        /\ pinocchio_data_' = r.pinocchio_data_
                        /\ fx_' = r.fx_
                        /\ fu_' = r.fu_
                        /\ UNCHANGED xdot_analytic_
    /\ UNCHANGED <<kind, dims, parameters_, model_, bound>>

CallPinocchioFu ==
    /\ OnBoundPinocchio
    /\ \E xu \in StateControlInputs :
          LET x == xu[1]
              u == xu[2]
              args == [NoArgs EXCEPT !.x = x, !.u = u]
          IN  \/ /\ Len(u) # num_velocities_
                 /\ call' = CallOf("fu", args, Aborted)
                 /\ UNCHANGED scratch
              \/ \E tau \in Reads(u, num_velocities_) :
                    \E r \in {PinocchioFu(x, tau)} :
                        /\ call' = CallOf("fu", args, Returned(r.ret))
                        /\ pinocchio_data_' = r.pinocchio_data_
                        /\ fx_' = r.fx_
                        /\ fu_' = r.fu_
                        /\ UNCHANGED xdot_analytic_
    /\ UNCHANGED <<kind, dims, parameters_, model_, bound>>

CallPinocchioInverseDynamics ==
    /\ OnBoundPinocchio
    /\ \E x \in ValidStateInputs :
          \E r \in {PinocchioInverseDynamics(x)} :
              /\ call' = CallOf("InverseDynamics", [NoArgs EXCEPT !.x = x],
                                Returned(r.ret))
              /\ pinocchio_data_' = r.pinocchio_data_
    /\ UNCHANGED <<kind, dims, parameters_, model_, bound, xdot_analytic_, fx_, fu_>>

CallPinocchioStateDelta ==
    /\ OnBoundPinocchio
    /\ \E xx \in StatePairInputs :
          call' = CallOf("StateDelta", [NoArgs EXCEPT !.x = xx[1], !.x_2 = xx[2]],
                         PinocchioStateDelta(xx[1], xx[2]))
    /\ UNCHANGED <<kind, dims, parameters_, model_, bound, scratch>>

CallPinocchioDStateDelta ==
    /\ OnBoundPinocchio
    /\ \E xx \in StatePairInputs, first_or_second \in ArgumentPositions :
          call' = CallOf("dStateDelta",
                         [NoArgs EXCEPT !.x = xx[1], !.x_2 = xx[2],
                                        !.arg = first_or_second],
                         PinocchioDStateDelta(xx[1], xx[2], first_or_second))
    /\ UNCHANGED <<kind, dims, parameters_, model_, bound, scratch>>

\* Integrate keeping its dt argument as the solver's step dt_ (mutant)
CallPinocchioIntegrate_KeepsStep ==
    /\ OnBoundPinocchio
    /\ \E xdx \in StateTangentInputs, dt \in StepInputs :
          /\ call' = CallOf("Integrate",
                            [NoArgs EXCEPT !.x = xdx[1], !.dx = xdx[2], !.dt = dt],
                            Returned(PinocchioIntegrate(xdx[1], xdx[2], dt,
                                        ZeroVec(num_positions_ + num_velocities_))))
          /\ parameters_' = [parameters_ EXCEPT !.dt_ = dt]
    /\ UNCHANGED <<kind, dims, model_, bound, scratch>>

CallPinocchioIntegrate ==
    /\ OnBoundPinocchio
    /\ \E xdx \in StateTangentInputs, dt \in StepInputs :
          call' = CallOf("Integrate",
                         [NoArgs EXCEPT !.x = xdx[1], !.dx = xdx[2], !.dt = dt],
                         Returned(PinocchioIntegrate(xdx[1], xdx[2], dt,
                                     ZeroVec(num_positions_ + num_velocities_))))
    /\ UNCHANGED <<kind, dims, parameters_, model_, bound, scratch>>

CallPinocchioSimulateOneStep ==
    /\ OnBoundPinocchio
    /\ \E xu \in ValidStateControlInputs :
          \E r \in {PinocchioSimulateOneStep(xu[1], xu[2])} :
              /\ call' = CallOf("SimulateOneStep",
                                [NoArgs EXCEPT !.x = xu[1], !.u = xu[2]],
                                Returned(r.ret))
              /\ pinocchio_data_' = r.pinocchio_data_
              /\ xdot_analytic_' = r.xdot_analytic_
    /\ UNCHANGED <<kind, dims, parameters_, model_, bound, fx_, fu_>>

\* the caller of Spec keeps no result
Next ==
    \/ CallCartpoleAssignScene /\ UNCHANGED held
    \/ CallCartpoleF /\ UNCHANGED held
    \/ CallCartpoleFx /\ UNCHANGED held
    \/ CallCartpoleFu /\ UNCHANGED held
    \/ CallCartpoleGetPosition /\ UNCHANGED held
    \/ CallCartpoleStateDelta /\ UNCHANGED held
    \/ CallPinocchioAssignScene /\ UNCHANGED held
    \/ CallPinocchioF /\ UNCHANGED held
    \/ CallPinocchioComputeDerivatives /\ UNCHANGED held
    \/ CallPinocchioFx /\ UNCHANGED held
    \/ CallPinocchioFu /\ UNCHANGED held
    \/ CallPinocchioInverseDynamics /\ UNCHANGED held
    \/ CallPinocchioStateDelta /\ UNCHANGED held
    \/ CallPinocchioDStateDelta /\ UNCHANGED held
    \/ CallPinocchioIntegrate /\ UNCHANGED held
    \/ CallPinocchioSimulateOneStep /\ UNCHANGED held

Spec == Init /\ [][Next]_vars

\* ------------------------------------------- a caller that keeps results

\* the call of this step returned and the caller assigns the result to its
\* variable, or lets the result go
KeepOrDrop ==
    \/ /\ call'.outcome = "ok"
       /\ held' = [op |-> call'.op, x |-> call'.x, u |-> call'.u,
                   at_return |-> call'.ret,
                   object |-> ReturnedObject(ReturnedStorage(kind, call'.op),
                                             call'.ret)]
    \/ UNCHANGED held

\* the arguments of this step's call have the sizes of the bound solver
WellSized ==
    /\ Len(call'.x) = num_positions_ + num_velocities_
    /\ Len(call'.u) = num_controls_

KeepCartpoleF == CallCartpoleF /\ WellSized /\ KeepOrDrop
KeepCartpoleFx == CallCartpoleFx /\ WellSized /\ KeepOrDrop
KeepCartpoleFu == CallCartpoleFu /\ WellSized /\ KeepOrDrop
KeepPinocchioF == CallPinocchioF /\ WellSized /\ KeepOrDrop
KeepPinocchioFx == CallPinocchioFx /\ WellSized /\ KeepOrDrop
KeepPinocchioFu == CallPinocchioFu /\ WellSized /\ KeepOrDrop
BindCartpole == CallCartpoleAssignScene /\ UNCHANGED held
BindPinocchio == CallPinocchioAssignScene /\ UNCHANGED held

NextKeeping ==
    \/ BindCartpole
    \/ KeepCartpoleF
    \/ KeepCartpoleFx
    \/ KeepCartpoleFu
    \/ BindPinocchio
    \/ KeepPinocchioF
    \/ KeepPinocchioFx
    \/ KeepPinocchioFu

SpecKeeping == Init /\ [][NextKeeping]_vars

(***************************************************************************)
(* Properties.                                                             *)
(***************************************************************************)
OnPinocchio == kind = "pinocchio"
StateSize == num_positions_ + num_velocities_
\* every row of M has c coefficients and there are r rows
HasShape(M, r, c) == Rows(M) = r /\ \A i \in 1..r : Len(M[i]) = c
\* the last call was given a state of a wrong size
SizeMismatch == Len(call.x) # StateSize \/ Len(call.x_2) # StateSize
SizeMessage == "x_1 or x_2 do not have correct size"
SelectorMessage == "Can only take derivative w.r.t. x_1 or x_2, i.e., ARG0 or ARG1."

\* C1: the cartpole's AssignScene returns exactly when the description
\* reports 2 controlled joints and throws otherwise, and a cartpole solver
\* whose bind succeeded has num_positions = 2, num_velocities = 2 and
\* num_controls = 1.
C1_CartpoleAssignScene ==
    kind = "cartpole" =>
        /\ call.op = "AssignScene" =>
              /\ (call.outcome = "ok") <=> (call.scene.controlled = 2)
              /\ call.outcome # "ok" =>
                    call.outcome = "Exception" /\ call.ret = NoValue
        /\ bound =>
              num_positions_ = 2 /\ num_velocities_ = 2 /\ num_controls_ = 1

\* a description reporting 3 joints has just been refused by a cartpole
\* solver that an earlier description reporting 2 joints had bound
C1_Witness ==
    /\ kind = "cartpole"
    /\ bound
    /\ call.op = "AssignScene"
    /\ call.scene.controlled = 3
    /\ call.outcome = "Exception"

\* C2: an AssignScene of the generic solver with a base type other than
\* FIXED throws, and the step leaves the engine model, the three dimension
\* fields, the engine data and the scratch buffers as they were.
C2_NonFixedBaseRejected ==
    [][(OnPinocchio /\ call'.op = "AssignScene" /\ call'.scene.base # "FIXED")
          => /\ call'.outcome = "Exception"
             /\ UNCHANGED <<model_, dims, scratch>>]_vars

\* a planar-base description has been refused by a solver that is still
\* unbound: no engine data, no dimensions
C2_Witness ==
    /\ OnPinocchio
    /\ call.op = "AssignScene"
    /\ call.scene.base = "PLANAR"
    /\ call.outcome = "Exception"
    /\ ~pinocchio_data_.allocated
    /\ num_positions_ = UnsetDim

\* C3: on a bound generic solver fx_ is ndx x ndx with ndx = 2 nv, its
\* top-right nv x nv block is the identity and its top-left block is zero,
\* fu_ is ndx x nv and its top nv rows are zero, whatever calls were made;
\* right after a successful AssignScene the lower blocks of fx_ and fu_ are
\* zero too.
C3_FxFuStructure ==
    (OnPinocchio /\ pinocchio_data_.allocated) =>
        LET nv == num_velocities_
            ndx == 2 * nv
        IN  /\ HasShape(fx_, ndx, ndx)
            /\ Block(fx_, 0, nv, nv, nv) = IdentityMat(nv)
            /\ Block(fx_, 0, 0, nv, nv) = ZeroMat(nv, nv)
            /\ HasShape(fu_, ndx, nv)
            /\ Block(fu_, 0, 0, nv, nv) = ZeroMat(nv, nv)
            /\ (call.op = "AssignScene" /\ call.outcome = "ok") =>
                  /\ Block(fx_, nv, 0, nv, ndx) = ZeroMat(nv, ndx)
                  /\ fu_ = ZeroMat(ndx, nv)

\* an fx call on a two-joint model has filled both lower quadrants of fx_
C3_Witness ==
    /\ OnPinocchio
    /\ call.op = "fx"
    /\ call.outcome = "ok"
    /\ num_velocities_ = 2
    /\ Block(fx_, 2, 0, 2, 2) # ZeroMat(2, 2)
    /\ Block(fx_, 2, 2, 2, 2) # ZeroMat(2, 2)
    /\ Block(fu_, 2, 0, 2, 2) # ZeroMat(2, 2)

\* C4: an AssignScene call on a solver that an earlier AssignScene has bound
\* is refused with an exception.
C4_RebindRejected == call.rebind => call.outcome = "Exception"

\* C5: on a bound solver a call of f, fx or fu with a state or a control of
\* a wrong size is refused with an exception of the solver and returns
\* nothing.
C5_SizeMismatchRejected ==
    (/\ bound
     /\ call.op \in {"f", "fx", "fu"}
     /\ Len(call.x) # StateSize \/ Len(call.u) # num_controls_)
        => call.outcome = "Exception" /\ call.ret = NoValue

\* the generic solver is bound to a Euclidean model and StateDelta returned
EuclideanStateDelta ==
    /\ OnPinocchio
    /\ pinocchio_data_.allocated
    /\ IsEuclidean(model_)
    /\ call.op = "StateDelta"
    /\ call.outcome = "ok"

\* C6, as claimed: with a the first and b the second argument of StateDelta,
\* Integrate(a, StateDelta(a, b), 1) = b.
C6_RoundTrip_AsClaimed ==
    EuclideanStateDelta =>
        PinocchioIntegrate(call.x, call.ret, 1, ZeroVec(StateSize)) = call.x_2

\* C6, amended: with a the first and b the second argument of StateDelta,
\* Integrate(b, StateDelta(a, b), 1) = a on a Euclidean configuration space.
C6_RoundTrip ==
    EuclideanStateDelta =>
        PinocchioIntegrate(call.x_2, call.ret, 1, ZeroVec(StateSize)) = call.x

\* StateDelta of two different states of a two-joint Euclidean model
C6_Witness ==
    /\ EuclideanStateDelta
    /\ num_velocities_ = 2
    /\ VecHead(call.x, 2) # VecHead(call.x_2, 2)
    /\ VecTail(call.x, 2) # VecTail(call.x_2, 2)

\* C7: a matrix returned by dStateDelta(x_1, x_2, arg) is 2 nv x 2 nv, its
\* off-diagonal blocks are zero, its bottom-right block is the identity for
\* ARG0 and minus the identity for ARG1, and its top-left block is the
\* engine's dDifference(x_2.q, x_1.q) in slot ARG1 for ARG0 and in slot ARG0
\* for ARG1.
C7_DStateDeltaBlocks ==
    (OnPinocchio /\ call.op = "dStateDelta" /\ call.outcome = "ok") =>
        LET nv == num_velocities_
            J == call.ret
            q_1 == VecHead(call.x, num_positions_)
            q_2 == VecHead(call.x_2, num_positions_)
        IN  /\ HasShape(J, 2 * nv, 2 * nv)
            /\ Block(J, 0, nv, nv, nv) = ZeroMat(nv, nv)
            /\ Block(J, nv, 0, nv, nv) = ZeroMat(nv, nv)
            /\ Block(J, nv, nv, nv, nv) =
                  MatScale(IF call.arg = "ARG0" THEN 1 ELSE -1, IdentityMat(nv))
            /\ Block(J, 0, 0, nv, nv) =
                  dDifference(model_, q_2, q_1,
                              IF call.arg = "ARG0" THEN "ARG1" ELSE "ARG0")

\* dStateDelta with respect to the second state on a two-joint model
C7_Witness ==
    /\ OnPinocchio
    /\ call.op = "dStateDelta"
    /\ call.outcome = "ok"
    /\ call.arg = "ARG1"
    /\ num_velocities_ = 2
    /\ num_positions_ > 2

\* C8: the vector SimulateOneStep(x, u) returns has num_positions +
\* num_velocities coefficients; its configuration block is the engine's
\* integrate of x's configuration by dt_ times x's velocity and its velocity
\* block is x's velocity plus dt_ times the acceleration of aba; it is the
\* xout that Integrate(x, f(x, u), dt_) writes.
C8_SimulateOneStep ==
    (OnPinocchio /\ call.op = "SimulateOneStep" /\ call.outcome = "ok") =>
        LET q == VecHead(call.x, num_positions_)
            v == VecTail(call.x, num_velocities_)
            dt == parameters_.dt_
        IN  /\ Len(call.ret) = num_positions_ + num_velocities_
            /\ VecHead(call.ret, num_positions_) =
                  integrate(model_, q, VecScale(dt, v))
            /\ VecTail(call.ret, num_velocities_) =
                  VecAdd(v, VecScale(dt, aba(model_, q, v, call.u)))
            /\ call.ret =
                  PinocchioIntegrate(call.x, PinocchioF(call.x, call.u).ret, dt,
                                     ZeroVec(StateSize))

\* a step of a two-joint model that moved the state
C8_Witness ==
    /\ OnPinocchio
    /\ call.op = "SimulateOneStep"
    /\ call.outcome = "ok"
    /\ num_velocities_ = 2
    /\ VecHead(call.ret, num_positions_) # VecHead(call.x, num_positions_)
    /\ VecTail(call.ret, 2) # VecTail(call.x, 2)

\* the operations a bound solver offers besides AssignScene
DynamicsOps ==
    {"f", "fx", "fu", "StateDelta", "dStateDelta", "Integrate",
     "SimulateOneStep", "InverseDynamics", "GetPosition"}

\* C9: a call of f, fx, fu, StateDelta, dStateDelta, Integrate,
\* SimulateOneStep, InverseDynamics or GetPosition on a bound solver leaves
\* num_positions, num_velocities, num_controls, the parameters (masses,
\* length, gravity, step) and the engine model unchanged: what it changes of
\* the solver is scratch storage only.
C9_DynamicsLeaveModel ==
    [][(bound /\ call'.op \in DynamicsOps)
          => UNCHANGED <<kind, dims, parameters_, model_>>]_vars

\* a SimulateOneStep call has rewritten the xdot buffer of a bound solver
\* whose dimensions are still those of its model
C9_Witness ==
    /\ OnPinocchio
    /\ bound
    /\ call.op = "SimulateOneStep"
    /\ xdot_analytic_ # ZeroVec(2 * num_velocities_)
    /\ num_positions_ = ModelNq(model_)
    /\ num_velocities_ = 2

\* C10: dStateDelta throws for a state of a wrong size, whatever the
\* selector, and with states of the right size throws for a selector other
\* than ARG0 and ARG1; StateDelta throws for a state of a wrong size and
\* otherwise returns 2 * num_velocities coefficients.
C10_DeltaErrors ==
    (OnPinocchio /\ pinocchio_data_.allocated) =>
        /\ call.op = "dStateDelta" =>
              /\ SizeMismatch =>
                    /\ call.outcome = "Exception"
                    /\ call.what = SizeMessage
                    /\ call.ret = NoValue
              /\ (~SizeMismatch /\ call.arg \notin {"ARG0", "ARG1"}) =>
                    /\ call.outcome = "Exception"
                    /\ call.what = SelectorMessage
                    /\ call.ret = NoValue
              /\ (~SizeMismatch /\ call.arg \in {"ARG0", "ARG1"}) =>
                    call.outcome = "ok"
        /\ call.op = "StateDelta" =>
              /\ SizeMismatch =>
                    /\ call.outcome = "Exception"
                    /\ call.what = SizeMessage
                    /\ call.ret = NoValue
              /\ ~SizeMismatch =>
                    /\ call.outcome = "ok"
                    /\ Len(call.ret) = 2 * num_velocities_

\* dStateDelta was given a state of a wrong size together with a selector
\* that is neither ARG0 nor ARG1, on a model with more configuration
\* coordinates than velocities
C10_Witness ==
    /\ OnPinocchio
    /\ call.op = "dStateDelta"
    /\ SizeMismatch
    /\ call.arg = "ARG2"
    /\ call.what = SizeMessage
    /\ num_positions_ > num_velocities_

\* C11: a result of f, fx or fu that the caller keeps is the caller's own
\* copy: no later f, fx or fu call on the same solver changes what the caller
\* reads in it, and it stays the value that was returned, whatever the later
\* calls write into xdot_analytic_, fx_ and fu_.
C11_ReturnedByValue ==
    [][(held.op # "none" /\ held' = held /\ call'.op \in {"f", "fx", "fu"})
          => /\ ValueOf(held.object)' = ValueOf(held.object)
             /\ ValueOf(held.object)' = held.at_return]_vars

\* the caller keeps a matrix that fx of a two-joint model returned, and a
\* later fu call with another state has changed the lower quadrants of fx_
C11_Witness ==
    /\ OnPinocchio
    /\ num_velocities_ = 2
    /\ held.op = "fx"
    /\ call.op = "fu"
    /\ call.outcome = "ok"
    /\ call.x # held.x
    /\ Block(fx_, 2, 0, 2, 4) # Block(held.at_return, 2, 0, 2, 4)
    /\ ValueOf(held.object) = held.at_return
====
